---- MODULE Spec2Model ----
(***************************************************************************)
(* A model of the insertion-ordered map of orderedmap.go.                  *)
(*                                                                         *)
(* An OrderedMap is a record [kv, ll, node]:                               *)
(*   kv    the index, map[interface{}]*list.Element: key -> handle         *)
(*   ll    the container/list list: the sequence of element handles        *)
(*   node  the heap: handle -> the *orderedMapElement {key, value} that    *)
(*         the list element carries                                        *)
(* Every operation of the source is an operator from a map (and its        *)
(* arguments) to [m |-> the map afterwards, ret |-> what is returned], so  *)
(* that what an operation writes and what it leaves alone are both part of *)
(* what is checked.  Keys and values are interface{} values; both are      *)
(* strings here.                                                           *)
(***************************************************************************)
EXTENDS Integers, Sequences, FiniteSets

VARIABLES m, pre, last, hist, wire, dst, mu, th, log

vars == <<m, pre, last, hist, wire, dst, mu, th, log>>

\* The keys and values callers pass.
KeySet == {"a", "b", "c", "d"}
Vals == {"1", "2"}
\* The default a caller passes to GetOrDefault.
Default == "dflt"

\* The most elements a map holds, which is the size of the heap.
MaxLen == 3
\* The most insertions of new keys in a history that counts them.
MaxInserts == 4
\* The goroutines that call the map at the same time.
NumThreads == 2

Handles == 1..MaxLen

\* Go's nil interface value.
Nil == "nil"
\* The nil *Element of Front and Back.
NilElement == <<>>
\* What an index out of range does to the caller.
Panic == <<"panic: index out of range">>
\* The last field of a call that has no such argument.
None == "-"

Range(s) == {s[i] : i \in DOMAIN s}

\* ------------------------------------------------------------------ heap

\* An element that nothing refers to is gone.
Collect(c) ==
    [c EXCEPT !.node = [h \in (DOMAIN c.node) \cap (Range(c.ll) \cup Range(c.kv))
                          |-> c.node[h]]]

FreeHandles(c) == Handles \ DOMAIN c.node

NewHandle(c) == CHOOSE h \in FreeHandles(c) : \A g \in FreeHandles(c) : h <= g

\* ---------------------------------------------------------------- the list

\* A faulty PushBack: the new element goes to the front of the list.
PushFront(c, k, v) ==
    LET h == NewHandle(c)
    IN  [c EXCEPT !.ll = <<h>> \o c.ll,
                  !.node = [g \in DOMAIN c.node \cup {h} |->
                              IF g = h THEN [key |-> k, value |-> v] ELSE c.node[g]]]

\* m.ll.PushBack(&orderedMapElement{key, value})
PushBack(c, k, v) ==
    LET h == NewHandle(c)
    IN  [c EXCEPT !.ll = Append(c.ll, h),
                  !.node = [g \in DOMAIN c.node \cup {h} |->
                              IF g = h THEN [key |-> k, value |-> v] ELSE c.node[g]]]

\* A faulty Remove: the first element goes, whichever was asked for.
RemoveFront(c, h) == [c EXCEPT !.ll = IF c.ll = <<>> THEN <<>> ELSE Tail(c.ll)]

\* m.ll.Remove(element)
ListRemove(c, h) == [c EXCEPT !.ll = SelectSeq(c.ll, LAMBDA g : g # h)]

\* ----------------------------------------------------------- the operations

NewOrderedMap == [kv |-> <<>>, ll |-> <<>>, node |-> <<>>]

\* _, ok := m.kv[key]
Has(c, k) == k \in DOMAIN c.kv

\* A faulty Get: a hit returns nil for the value.
GetDropsValue(c, k) ==
    [m |-> c, ret |-> IF Has(c, k) THEN <<Nil, TRUE>> ELSE <<Nil, FALSE>>]

Get(c, k) ==
    [m |-> c,
     ret |-> IF Has(c, k) THEN <<c.node[c.kv[k]].value, TRUE>> ELSE <<Nil, FALSE>>]

\* A faulty Set: replacing a value moves the key to the back.
SetMoveToBack(c, k, v) ==
    LET didExist == Has(c, k)
        d == IF didExist THEN Collect(ListRemove(c, c.kv[k])) ELSE c
        p == PushBack(d, k, v)
        h == p.ll[Len(p.ll)]
    IN  [m |-> [p EXCEPT !.kv = [x \in DOMAIN c.kv \cup {k} |->
                                   IF x = k THEN h ELSE c.kv[x]]],
         ret |-> ~didExist]

\* A faulty Set: a new key is put into a map of its own, and what the map held
\* is lost.
SetApplyLosesOthers(c, k, v, didExist) ==
    IF ~didExist
    THEN LET p == PushBack(NewOrderedMap, k, v)
         IN  [m |-> [p EXCEPT !.kv = [x \in {k} |-> p.ll[1]]],
              ret |-> TRUE, panic |-> FALSE]
    ELSE [m |-> [c EXCEPT !.node[c.kv[k]].value = v], ret |-> FALSE, panic |-> FALSE]

\* Set after `_, didExist := m.kv[key]`: the branch taken is that of didExist
\* as it was read.  Writing through m.kv[key] when the key is no longer there
\* is a nil dereference.
SetApply(c, k, v, didExist) ==
    IF ~didExist
    THEN LET p == PushBack(c, k, v)
             element == p.ll[Len(p.ll)]
         IN  [m |-> [p EXCEPT !.kv = [x \in DOMAIN c.kv \cup {k} |->
                                        IF x = k THEN element ELSE c.kv[x]]],
              ret |-> TRUE, panic |-> FALSE]
    ELSE IF Has(c, k)
    THEN [m |-> [c EXCEPT !.node[c.kv[k]].value = v], ret |-> FALSE, panic |-> FALSE]
    ELSE [m |-> c, ret |-> FALSE, panic |-> TRUE]

Set(c, k, v) ==
    LET r == SetApply(c, k, v, Has(c, k))
    IN  [m |-> r.m, ret |-> r.ret]

\* A faulty GetOrDefault: the default of an absent key is stored.
GetOrDefaultInserts(c, k, d) ==
    IF Has(c, k) THEN [m |-> c, ret |-> c.node[c.kv[k]].value]
    ELSE [m |-> Set(c, k, d).m, ret |-> d]

GetOrDefault(c, k, d) ==
    [m |-> c, ret |-> IF Has(c, k) THEN c.node[c.kv[k]].value ELSE d]

\* Len(), which the module Sequences keeps the name of.
MapLen(c) == [m |-> c, ret |-> Cardinality(DOMAIN c.kv)]

\* Keys(): a slice of Len() slots, filled from the front of the list on; a
\* list longer than the slice runs past its end.
KeysFill(c, n) ==
    [m |-> c,
     ret |-> IF Len(c.ll) > n THEN Panic
             ELSE [i \in 1..n |-> IF i <= Len(c.ll) THEN c.node[c.ll[i]].key
                                  ELSE Nil]]

Keys(c) == KeysFill(c, MapLen(c).ret)

\* delete(m.kv, key)
Unlink(c, k) == [c EXCEPT !.kv = [x \in DOMAIN c.kv \ {k} |-> c.kv[x]]]

\* A faulty Delete: delete(m.kv, key) is forgotten.
DeleteKeepIndex(c, k) ==
    IF Has(c, k) THEN [m |-> Collect(ListRemove(c, c.kv[k])), ret |-> TRUE]
    ELSE [m |-> c, ret |-> FALSE]

\* A faulty Delete: m.ll.Remove(element) is forgotten.
DeleteKeepNode(c, k) ==
    IF Has(c, k) THEN [m |-> Collect(Unlink(c, k)), ret |-> TRUE]
    ELSE [m |-> c, ret |-> FALSE]

\* A faulty Delete: true is returned for an absent key too.
DeleteRetTrue(c, k) ==
    IF Has(c, k) THEN [m |-> Collect(Unlink(ListRemove(c, c.kv[k]), k)), ret |-> TRUE]
    ELSE [m |-> c, ret |-> TRUE]

\* Delete after `element, ok := m.kv[key]`.
DeleteApply(c, k, element, ok) ==
    IF ok THEN [m |-> Collect(Unlink(ListRemove(c, element), k)), ret |-> TRUE]
    ELSE [m |-> c, ret |-> FALSE]

Delete(c, k) == DeleteApply(c, k, IF Has(c, k) THEN c.kv[k] ELSE 0, Has(c, k))

Front(c) ==
    [m |-> c,
     ret |-> IF c.ll = <<>> THEN NilElement
             ELSE <<c.node[c.ll[1]].key, c.node[c.ll[1]].value>>]

\* A faulty Back: it reads m.ll.Front().
BackIsFront(c) == Front(c)

Back(c) ==
    [m |-> c,
     ret |-> IF c.ll = <<>> THEN NilElement
             ELSE <<c.node[c.ll[Len(c.ll)]].key, c.node[c.ll[Len(c.ll)]].value>>]

\* ------------------------------------------------------------------ codec

\* The name gob sends for the concrete type of an interface value; none for nil.
TypeName(x) == IF x = Nil THEN "" ELSE "string"

\* enc.Encode(collection) of a []interface{}: the count, then each element as
\* its type name and its value.
GobEncode(collection) ==
    <<Len(collection)>> \o
    [i \in 1..(2 * Len(collection)) |->
        IF i % 2 = 1 THEN TypeName(collection[(i + 1) \div 2])
        ELSE collection[i \div 2]]

\* dec.Decode(&collection): the count, then that many elements of a known type.
GobDecode(bys) ==
    IF bys = <<>> THEN [err |-> "EOF", v |-> <<>>]
    ELSE LET n == bys[1]
         IN  IF Len(bys) # 1 + 2 * n
             THEN [err |-> "unexpected EOF", v |-> <<>>]
             ELSE IF \E i \in 1..n : bys[2 * i] \notin {"", "string"}
             THEN [err |-> "gob: name not registered for interface", v |-> <<>>]
             ELSE [err |-> Nil, v |-> [i \in 1..n |-> bys[2 * i + 1]]]

Quote == "\""

\* json.Marshal of a []byte: a JSON string.
JsonMarshal(bys) == <<Quote>> \o bys \o <<Quote>>

\* json.Unmarshal into a []byte: the input must be a JSON string.
JsonUnmarshal(data) ==
    IF Len(data) >= 2 /\ data[1] = Quote /\ data[Len(data)] = Quote
    THEN [err |-> Nil, v |-> SubSeq(data, 2, Len(data) - 1)]
    ELSE [err |-> "invalid character", v |-> <<>>]

\* the loop of MarshalJSON: key, then the value Get finds for it, for each key
RECURSIVE Collection(_, _)
Collection(c, keys) ==
    IF keys = <<>> THEN <<>>
    ELSE <<Head(keys), Get(c, Head(keys)).ret[1]>> \o Collection(c, Tail(keys))

MarshalJSON(c) ==
    [m |-> c, ret |-> <<JsonMarshal(GobEncode(Collection(c, Keys(c).ret))), Nil>>]

\* A faulty loop of UnmarshalJSON: idx = i, not i << 1.
RECURSIVE SetPairsStride1(_, _, _, _)
SetPairsStride1(c, collection, i, count) ==
    IF i < count
    THEN SetPairsStride1(Set(c, collection[i + 1], collection[i + 2]).m,
                         collection, i + 1, count)
    ELSE c

\* the loop of UnmarshalJSON: idx = i << 1, Set(collection[idx], collection[idx+1])
RECURSIVE SetPairs(_, _, _, _)
SetPairs(c, collection, i, count) ==
    IF i < count
    THEN SetPairs(Set(c, collection[2 * i + 1], collection[2 * i + 2]).m,
                  collection, i + 1, count)
    ELSE c

\* A faulty UnmarshalJSON: the pairs are set before the length is found odd.
UnmarshalJSONLateCheck(c, data) ==
    LET j == JsonUnmarshal(data)
        g == GobDecode(j.v)
        length == Len(g.v)
        count == length \div 2
    IN  IF j.err # Nil THEN [m |-> c, ret |-> j.err]
        ELSE IF g.err # Nil THEN [m |-> c, ret |-> g.err]
        ELSE [m |-> SetPairs(c, g.v, 0, count),
              ret |-> IF count * 2 # length
                      THEN "invalid data, key-value doesn't match" ELSE Nil]

\* A faulty UnmarshalJSON: the map is emptied before the pairs are set.
UnmarshalJSONReplace(c, data) ==
    LET j == JsonUnmarshal(data)
        g == GobDecode(j.v)
        length == Len(g.v)
        count == length \div 2
    IN  IF j.err # Nil THEN [m |-> c, ret |-> j.err]
        ELSE IF g.err # Nil THEN [m |-> c, ret |-> g.err]
        ELSE IF count * 2 # length
        THEN [m |-> c, ret |-> "invalid data, key-value doesn't match"]
        ELSE [m |-> SetPairs(NewOrderedMap, g.v, 0, count), ret |-> Nil]

UnmarshalJSON(c, data) ==
    LET j == JsonUnmarshal(data)
        g == GobDecode(j.v)
        length == Len(g.v)
        count == length \div 2
    IN  IF j.err # Nil THEN [m |-> c, ret |-> j.err]
        ELSE IF g.err # Nil THEN [m |-> c, ret |-> g.err]
        ELSE IF count * 2 # length
        THEN [m |-> c, ret |-> "invalid data, key-value doesn't match"]
        ELSE [m |-> SetPairs(c, g.v, 0, count), ret |-> Nil]

\* --------------------------------------------------------- sync.RWMutex

Threads == 1..NumThreads

\* readers[t]: the read locks t holds; w: the writer that holds the writers'
\* mutex, and so has announced itself, or 0; held: that writer is inside.
NoLock == [readers |-> [t \in Threads |-> 0], w |-> 0, held |-> FALSE]

\* A faulty RLock: an announced writer does not hold a reader back.
CanRLockBesideWriter(l) == TRUE

\* RLock goes through unless a writer has announced itself.
CanRLock(l) == l.w = 0

RLock(l, t) == [l EXCEPT !.readers[t] = @ + 1]

RUnlock(l, t) == [l EXCEPT !.readers[t] = @ - 1]

\* A faulty Lock: two writers announce themselves at once.
CanAnnounceBesideWriter(l) == TRUE

\* Lock first takes the writers' mutex, which announces the writer.
CanAnnounce(l) == l.w = 0

Announce(l, t) == [l EXCEPT !.w = t]

\* A faulty Lock: the writer does not wait for the readers to leave.
CanLockBesideReaders(l, t) == l.w = t

\* Lock returns once the readers that were inside have left.
CanLock(l, t) == l.w = t /\ \A u \in Threads : l.readers[u] = 0

Lock(l, t) == [l EXCEPT !.held = TRUE]

Unlock(l, t) == [l EXCEPT !.w = 0, !.held = FALSE]

\* A goroutine: where it is in its call (pc), the call and its arguments, what
\* it returned, and the locals of the call: ok and element of Set and Delete,
\* n of Keys, and of MarshalJSON keys, the keys yet to Get (todo), collection
\* (coll) and the keys Get did not find (missed); snap is the map as it was when
\* the Len() of Keys read it.
NoCall ==
    [pc |-> "start", op |-> None, key |-> None, val |-> None, ret |-> None,
     ok |-> FALSE, element |-> 0, n |-> 0, snap |-> NewOrderedMap,
     keys |-> <<>>, todo |-> <<>>, coll |-> <<>>, missed |-> {}]

\* ------------------------------------------------------------------ calls

\* A caller's call on m: the map before it, the map after it, and what it got
\* back.
Call(op, k, v, r) ==
    /\ pre' = m
    /\ m' = r.m
    /\ last' = [op |-> op, key |-> k, val |-> v, ret |-> r.ret]

\* The heap has room for the element a new key needs.
Room(k) == Has(m, k) \/ FreeHandles(m) # {}

CallGet ==
    /\ \E k \in KeySet : Call("Get", k, None, Get(m, k))
    /\ UNCHANGED <<hist, wire, dst, mu, th, log>>

CallSet ==
    /\ \E k \in KeySet, v \in Vals : Room(k) /\ Call("Set", k, v, Set(m, k, v))
    /\ UNCHANGED <<hist, wire, dst, mu, th, log>>

CallGetOrDefault ==
    /\ \E k \in KeySet : Call("GetOrDefault", k, Default, GetOrDefault(m, k, Default))
    /\ UNCHANGED <<hist, wire, dst, mu, th, log>>

CallLen ==
    /\ Call("Len", None, None, MapLen(m))
    /\ UNCHANGED <<hist, wire, dst, mu, th, log>>

CallKeys ==
    /\ Call("Keys", None, None, Keys(m))
    /\ UNCHANGED <<hist, wire, dst, mu, th, log>>

CallDelete ==
    /\ \E k \in KeySet : Call("Delete", k, None, Delete(m, k))
    /\ UNCHANGED <<hist, wire, dst, mu, th, log>>

CallFront ==
    /\ Call("Front", None, None, Front(m))
    /\ UNCHANGED <<hist, wire, dst, mu, th, log>>

CallBack ==
    /\ Call("Back", None, None, Back(m))
    /\ UNCHANGED <<hist, wire, dst, mu, th, log>>

NoHist == [inserted |-> {}, deleted |-> {}, nNew |-> 0, nDel |-> 0]

Init ==
    /\ m = NewOrderedMap
    /\ pre = NewOrderedMap
    /\ last = [op |-> "NewOrderedMap", key |-> None, val |-> None, ret |-> None]
    /\ hist = NoHist
    /\ wire = <<>>
    /\ dst = NewOrderedMap
    /\ mu = NoLock
    /\ th = [t \in Threads |-> NoCall]
    /\ log = <<>>

Next ==
    \/ CallGet
    \/ CallSet
    \/ CallGetOrDefault
    \/ CallLen
    \/ CallKeys
    \/ CallDelete
    \/ CallFront
    \/ CallBack

Spec == Init /\ [][Next]_vars

\* ------------------------------------------------- a history that is counted

\* Set, Delete and Len, with the count of the Set calls that returned true
\* (and the keys they inserted) and of the Delete calls that returned true
\* (and the keys they deleted).
CountSet ==
    /\ \E k \in KeySet, v \in Vals :
          /\ Room(k)
          /\ Has(m, k) \/ hist.nNew < MaxInserts
          /\ Call("Set", k, v, Set(m, k, v))
          /\ hist' = IF Set(m, k, v).ret
                     THEN [hist EXCEPT !.inserted = @ \cup {k}, !.nNew = @ + 1]
                     ELSE hist
    /\ UNCHANGED <<wire, dst, mu, th, log>>

CountDelete ==
    /\ \E k \in KeySet :
          /\ Call("Delete", k, None, Delete(m, k))
          /\ hist' = IF Delete(m, k).ret
                     THEN [hist EXCEPT !.deleted = @ \cup {k}, !.nDel = @ + 1]
                     ELSE hist
    /\ UNCHANGED <<wire, dst, mu, th, log>>

HistNext ==
    \/ CountSet
    \/ CountDelete
    \/ CallLen

HistSpec == Init /\ [][HistNext]_vars

\* ------------------------------------------------------------ a round trip

\* A map is built by Set and Delete, serialized once and not touched again,
\* and its bytes are given to UnmarshalJSON on the other map, dst.
BuildSet == wire = <<>> /\ CallSet

BuildDelete == wire = <<>> /\ CallDelete

CallMarshalJSON ==
    /\ wire = <<>>
    /\ Call("MarshalJSON", None, None, MarshalJSON(m))
    /\ wire' = MarshalJSON(m).ret[1]
    /\ UNCHANGED <<hist, dst, mu, th, log>>

CallUnmarshalJSON ==
    /\ wire # <<>>
    /\ pre' = dst
    /\ dst' = UnmarshalJSON(dst, wire).m
    /\ last' = [op |-> "UnmarshalJSON", key |-> None, val |-> None,
                ret |-> UnmarshalJSON(dst, wire).ret]
    /\ UNCHANGED <<m, hist, wire, mu, th, log>>

CodecNext ==
    \/ BuildSet
    \/ BuildDelete
    \/ CallMarshalJSON
    \/ CallUnmarshalJSON

CodecSpec == Init /\ [][CodecNext]_vars

\* ------------------------------------------------- bytes a caller passes in

\* What a caller gives to UnmarshalJSON on a map built by Set and Delete: the
\* bytes of a flattened list of keys and values, told apart by coll, the list
\* they hold, or bytes that hold no list.
\* Lists of pairs; a key may come twice.
EvenColls ==
    {<<>>,
     <<"a", "1">>,
     <<"b", "2">>,
     <<"a", "1", "a", "2">>,
     <<"a", "2", "b", "1">>,
     <<"b", "2", "a", "1", "a", "2">>}

\* Lists of odd length.
OddColls == {<<"a">>, <<"a", "1", "b">>}

\* Not a JSON string; a gob stream that ends early; a gob stream that names a
\* type nobody registered.
BadBytes ==
    {<<"{">>,
     JsonMarshal(<<2, "string", "a">>),
     JsonMarshal(<<2, "main.T", "a", "string", "1">>)}

Inputs ==
    {[coll |-> c, data |-> JsonMarshal(GobEncode(c))] : c \in EvenColls \cup OddColls}
        \cup {[coll |-> <<>>, data |-> b] : b \in BadBytes}

\* The keys of a list: its elements at the odd places.
CollKeys(coll) == {coll[i] : i \in {j \in DOMAIN coll : j % 2 = 1}}

CallUnmarshalInput ==
    /\ \E inp \in Inputs :
          /\ Cardinality(CollKeys(inp.coll) \ DOMAIN m.kv) <= Cardinality(FreeHandles(m))
          /\ Call("UnmarshalJSON", inp.coll, inp.data, UnmarshalJSON(m, inp.data))
    /\ UNCHANGED <<hist, wire, dst, mu, th, log>>

InputNext ==
    \/ CallSet
    \/ CallDelete
    \/ CallUnmarshalInput

InputSpec == Init /\ [][InputNext]_vars

\* ------------------------------------------------------ concurrent callers

\* The map the goroutines are given: new, or with one key set.
ConcInitMaps == {NewOrderedMap, Set(NewOrderedMap, "a", "1").m}

ConcKeys == {"a", "b"}

\* The calls a goroutine may make, one each.
Menu ==
    {[op |-> o, key |-> k, val |-> None] : o \in {"Get", "Delete"}, k \in ConcKeys}
        \cup {[op |-> "GetOrDefault", key |-> k, val |-> Default] : k \in ConcKeys}
        \cup {[op |-> "Set", key |-> k, val |-> v] : k \in ConcKeys, v \in Vals}
        \cup {[op |-> o, key |-> None, val |-> None] :
                 o \in {"Len", "Keys", "Front", "Back", "MarshalJSON"}}

ConcInit ==
    /\ m \in ConcInitMaps
    /\ pre = m
    /\ last = [op |-> "NewOrderedMap", key |-> None, val |-> None, ret |-> None]
    /\ hist = NoHist
    /\ wire = <<>>
    /\ dst = NewOrderedMap
    /\ mu = NoLock
    /\ th = [t \in Threads |-> NoCall]
    /\ log = <<>>

Quiet == UNCHANGED <<pre, last, hist, wire, dst>>

\* The call is made: it stands before m.RLock() or m.Lock().  MarshalJSON
\* begins with Keys().
Begin(t) ==
    /\ th[t].pc = "start"
    /\ \E c \in Menu :
          th' = [th EXCEPT ![t].op = c.op, ![t].key = c.key, ![t].val = c.val,
                           ![t].pc = IF c.op \in {"Set", "Delete"} THEN "lock"
                                     ELSE IF c.op \in {"Keys", "MarshalJSON"}
                                     THEN "k_rlock"
                                     ELSE "rlock"]
    /\ UNCHANGED <<m, mu, log>>
    /\ Quiet

\* Where a goroutine stands before an RLock, and where it is once it has it:
\* in Get, GetOrDefault, Len, Front and Back; in Keys; in the Len() that Keys
\* calls with its own read lock held; in the Get of MarshalJSON.
AfterRLock(pc) ==
    CASE pc = "rlock" -> "rcs"
      [] pc = "k_rlock" -> "k_cs"
      [] pc = "k_cs" -> "kl_cs"
      [] pc = "mj_get" -> "mj_getcs"

AtRLock(t) == th[t].pc \in {"rlock", "k_rlock", "k_cs", "mj_get"}

AcquireRead(t) ==
    /\ AtRLock(t)
    /\ CanRLock(mu)
    /\ mu' = RLock(mu, t)
    /\ th' = [th EXCEPT ![t].pc = AfterRLock(th[t].pc)]
    /\ UNCHANGED <<m, log>>
    /\ Quiet

\* What a read call returns, and the map it leaves.
ReadOp(c, op, k, d) ==
    CASE op = "Get" -> Get(c, k)
      [] op = "GetOrDefault" -> GetOrDefault(c, k, d)
      [] op = "Len" -> MapLen(c)
      [] op = "Front" -> Front(c)
      [] op = "Back" -> Back(c)

\* The body of Get, GetOrDefault, Len, Front or Back, and the deferred RUnlock.
ReadReturn(t) ==
    /\ th[t].pc = "rcs"
    /\ LET r == ReadOp(m, th[t].op, th[t].key, th[t].val)
       IN  /\ m' = r.m
           /\ th' = [th EXCEPT ![t].ret = r.ret, ![t].pc = "done"]
    /\ mu' = RUnlock(mu, t)
    /\ UNCHANGED log
    /\ Quiet

\* The Len() of Keys returns: make([]interface{}, m.Len()).
KeysLenReturn(t) ==
    /\ th[t].pc = "kl_cs"
    /\ th' = [th EXCEPT ![t].n = MapLen(m).ret, ![t].snap = m, ![t].pc = "k_loop"]
    /\ m' = MapLen(m).m
    /\ mu' = RUnlock(mu, t)
    /\ UNCHANGED log
    /\ Quiet

\* The loop of Keys over the list, and the deferred RUnlock.  Keys returns to
\* its caller, or to MarshalJSON, which goes on to Get each key.
KeysReturn(t) ==
    /\ th[t].pc = "k_loop"
    /\ LET r == KeysFill(m, th[t].n)
       IN  /\ m' = r.m
           /\ th' = IF r.ret = Panic
                    THEN [th EXCEPT ![t].ret = Panic, ![t].pc = "panic"]
                    ELSE IF th[t].op = "Keys"
                    THEN [th EXCEPT ![t].ret = r.ret, ![t].pc = "done"]
                    ELSE [th EXCEPT ![t].keys = r.ret, ![t].todo = r.ret,
                                    ![t].pc = IF r.ret = <<>> THEN "mj_encode"
                                              ELSE "mj_get"]
    /\ mu' = RUnlock(mu, t)
    /\ UNCHANGED log
    /\ Quiet

\* data, _ = m.Get(key); collection = append(collection, key, data)
MarshalGetReturn(t) ==
    /\ th[t].pc = "mj_getcs"
    /\ LET key == Head(th[t].todo)
           r == Get(m, key)
       IN  /\ m' = r.m
           /\ th' = [th EXCEPT ![t].coll = @ \o <<key, r.ret[1]>>,
                               ![t].missed = IF r.ret[2] THEN @ ELSE @ \cup {key},
                               ![t].todo = Tail(@),
                               ![t].pc = IF Tail(th[t].todo) = <<>> THEN "mj_encode"
                                         ELSE "mj_get"]
    /\ mu' = RUnlock(mu, t)
    /\ UNCHANGED log
    /\ Quiet

\* enc.Encode(collection); json.Marshal(buf.Bytes())
MarshalEncode(t) ==
    /\ th[t].pc = "mj_encode"
    /\ th' = [th EXCEPT ![t].ret = <<JsonMarshal(GobEncode(th[t].coll)), Nil>>,
                        ![t].pc = "done"]
    /\ UNCHANGED <<m, mu, log>>
    /\ Quiet

\* m.Lock(), first part: the writer announces itself.
WriteAnnounce(t) ==
    /\ th[t].pc = "lock"
    /\ CanAnnounce(mu)
    /\ mu' = Announce(mu, t)
    /\ th' = [th EXCEPT ![t].pc = "wwait"]
    /\ UNCHANGED <<m, log>>
    /\ Quiet

\* m.Lock() returns; log keeps the order in which the writers got in.
WriteAcquire(t) ==
    /\ th[t].pc = "wwait"
    /\ CanLock(mu, t)
    /\ mu' = Lock(mu, t)
    /\ th' = [th EXCEPT ![t].pc = "wcs"]
    /\ log' = Append(log, t)
    /\ UNCHANGED m
    /\ Quiet

\* _, didExist := m.kv[key] of Set; element, ok := m.kv[key] of Delete
WriteCheck(t) ==
    /\ th[t].pc = "wcs"
    /\ th' = [th EXCEPT ![t].ok = Has(m, th[t].key),
                        ![t].element = IF Has(m, th[t].key) THEN m.kv[th[t].key] ELSE 0,
                        ![t].pc = "wapply"]
    /\ UNCHANGED <<m, mu, log>>
    /\ Quiet

\* The rest of Set or Delete, and the deferred Unlock.
WriteApply(t) ==
    /\ th[t].pc = "wapply"
    /\ (th[t].op = "Set" /\ ~th[t].ok) => FreeHandles(m) # {}
    /\ IF th[t].op = "Set"
       THEN LET r == SetApply(m, th[t].key, th[t].val, th[t].ok)
            IN  /\ m' = r.m
                /\ th' = [th EXCEPT ![t].ret = r.ret,
                                    ![t].pc = IF r.panic THEN "panic" ELSE "done"]
       ELSE LET r == DeleteApply(m, th[t].key, th[t].element, th[t].ok)
            IN  /\ m' = r.m
                /\ th' = [th EXCEPT ![t].ret = r.ret, ![t].pc = "done"]
    /\ mu' = Unlock(mu, t)
    /\ UNCHANGED log
    /\ Quiet

ConcNext ==
    \E t \in Threads :
        \/ Begin(t)
        \/ AcquireRead(t)
        \/ ReadReturn(t)
        \/ KeysLenReturn(t)
        \/ KeysReturn(t)
        \/ MarshalGetReturn(t)
        \/ MarshalEncode(t)
        \/ WriteAnnounce(t)
        \/ WriteAcquire(t)
        \/ WriteCheck(t)
        \/ WriteApply(t)

ConcSpec == ConcInit /\ [][ConcNext]_vars

\* ================================================================= claims

\* C1: after any sequence of Set and Delete calls the keys of the index are
\* the keys of the nodes of the list, no two nodes hold the same key, kv[k]
\* is a node of the list whose key is k, and Len() is the size of the index
\* and the length of the list.
C1_IndexMatchesSequence ==
    /\ DOMAIN m.kv = {m.node[h].key : h \in Range(m.ll)}
    /\ Cardinality({m.node[h].key : h \in Range(m.ll)}) = Len(m.ll)
    /\ Cardinality(Range(m.ll)) = Len(m.ll)
    /\ \A k \in DOMAIN m.kv : m.kv[k] \in Range(m.ll) /\ m.node[m.kv[k]].key = k
    /\ MapLen(m).ret = Len(m.ll)
    /\ MapLen(m).ret = Cardinality(DOMAIN m.kv)
    /\ last.op = "Len" => last.ret = Len(m.ll)

\* C1 witness: a Delete that removed a key has left two keys behind.
C1_Witness ==
    /\ last.op = "Delete" /\ last.ret = TRUE
    /\ Len(m.ll) = 2 /\ Len(pre.ll) = 3

\* C2: Set on a key that is present returns false, Get then returns the new
\* value, and Keys() and Len() are what they were, whether or not the value
\* differs from the old one.
C2_ReplaceKeepsPosition ==
    (last.op = "Set" /\ Has(pre, last.key)) =>
        /\ last.ret = FALSE
        /\ Get(m, last.key).ret = <<last.val, TRUE>>
        /\ Keys(m).ret = Keys(pre).ret
        /\ MapLen(m).ret = MapLen(pre).ret
        /\ \A k \in KeySet \ {last.key} : Get(m, k).ret = Get(pre, k).ret

\* C2 witness: the first of three keys got a value that differs from its old
\* one.
C2_Witness ==
    /\ last.op = "Set" /\ Has(pre, last.key)
    /\ Get(pre, last.key).ret[1] # last.val
    /\ Len(m.ll) = 3 /\ Keys(m).ret[1] = last.key

\* C3: Set on a key that is absent returns true, Keys() is the previous Keys()
\* with the key appended, the keys that were present keep their values, and
\* Len() has grown by one.
C3_InsertAppends ==
    (last.op = "Set" /\ ~Has(pre, last.key)) =>
        /\ last.ret = TRUE
        /\ Keys(m).ret = Append(Keys(pre).ret, last.key)
        /\ Get(m, last.key).ret = <<last.val, TRUE>>
        /\ MapLen(m).ret = MapLen(pre).ret + 1
        /\ \A k \in DOMAIN pre.kv : Get(m, k).ret = Get(pre, k).ret

\* C3 witness: a third key was inserted behind two others.
C3_Witness ==
    /\ last.op = "Set" /\ ~Has(pre, last.key)
    /\ Len(pre.ll) = 2 /\ Len(m.ll) = 3

\* C4: a key that was Set, then Deleted, and is Set again is a new insertion,
\* at the tail of Keys(): after a, b, c (Keys() = [a, b, c]) and Delete(b),
\* Set(d) gives [a, c, d] and Set(b) gives [a, c, b].
C4_ReinsertGoesToTail ==
    /\ (last.op = "Set" /\ ~Has(pre, last.key) /\ last.key \in hist.deleted) =>
          /\ last.ret = TRUE
          /\ Keys(m).ret = Append(Keys(pre).ret, last.key)
    /\ (last.op = "Set" /\ last.key = "c" /\ Keys(pre).ret = <<"a", "b">>) =>
          Keys(m).ret = <<"a", "b", "c">>
    /\ (last.op = "Delete" /\ last.key = "b" /\ Keys(pre).ret = <<"a", "b", "c">>) =>
          Keys(m).ret = <<"a", "c">>
    /\ (last.op = "Set" /\ last.key = "d" /\ Keys(pre).ret = <<"a", "c">>) =>
          Keys(m).ret = <<"a", "c", "d">>
    /\ (last.op = "Set" /\ last.key = "b" /\ Keys(pre).ret = <<"a", "c">>) =>
          Keys(m).ret = <<"a", "c", "b">>

\* C4 witness: b, deleted from between a and c, has been set again.
C4_Witness ==
    /\ last.op = "Set" /\ last.key = "b" /\ "b" \in hist.deleted
    /\ Keys(pre).ret = <<"a", "c">>
    /\ Keys(m).ret = <<"a", "c", "b">>

\* C5: Delete of a present key returns true and removes the key's index entry
\* and its node together, the other keys keeping their order and values;
\* Delete of an absent key returns false and changes nothing.
C5_Delete ==
    last.op = "Delete" =>
        IF Has(pre, last.key)
        THEN /\ last.ret = TRUE
             /\ ~Has(m, last.key)
             /\ \A h \in Range(m.ll) : m.node[h].key # last.key
             /\ DOMAIN m.kv = DOMAIN pre.kv \ {last.key}
             /\ Keys(m).ret = SelectSeq(Keys(pre).ret, LAMBDA k : k # last.key)
             /\ \A k \in DOMAIN m.kv : Get(m, k).ret = Get(pre, k).ret
        ELSE /\ last.ret = FALSE
             /\ m = pre

\* C5 witness: the middle one of three keys was deleted.
C5_Witness ==
    /\ last.op = "Delete" /\ last.ret = TRUE
    /\ Len(pre.ll) = 3 /\ Keys(pre).ret[2] = last.key
    /\ Len(m.ll) = 2

\* C6: Get of a key that is not in the map returns (nil, false); after
\* Set(k, v), Get(k) returns (v, true), and goes on doing so over every call
\* that is not a Set or a Delete of k; Get changes nothing.
C6_Get ==
    /\ \A k \in KeySet :
          (\A h \in Range(m.ll) : m.node[h].key # k) => Get(m, k).ret = <<Nil, FALSE>>
    /\ last.op = "Set" => Get(m, last.key).ret = <<last.val, TRUE>>
    /\ \A k \in KeySet :
          ~(last.op \in {"Set", "Delete"} /\ last.key = k)
              => Get(m, k).ret = Get(pre, k).ret
    /\ last.op = "Get" => (m = pre /\ last.ret = Get(m, last.key).ret)

\* C6 witness: a Get found the value of the second key of the map.
C6_Witness ==
    /\ last.op = "Get" /\ last.ret = <<"2", TRUE>>
    /\ Len(m.ll) >= 2 /\ Keys(m).ret[2] = last.key

\* C7, as claimed: Len() is the number of distinct keys ever inserted minus the
\* number of Delete calls that returned true.
C7_AsClaimed == MapLen(m).ret = Cardinality(hist.inserted) - hist.nDel

\* C7, amended: Len() is the number of Set calls that returned true minus the
\* number of Delete calls that returned true.
C7_LenCountsInsertions ==
    /\ MapLen(m).ret = hist.nNew - hist.nDel
    /\ last.op = "Len" => last.ret = hist.nNew - hist.nDel

\* C7 witness: Len() was called after a key was deleted and inserted again.
C7_Witness ==
    /\ last.op = "Len" /\ last.ret = 2
    /\ hist.nDel >= 1
    /\ hist.deleted \cap DOMAIN m.kv # {}

\* C8: Front() and Back() return nil exactly when the map is empty; otherwise
\* Front() is the first key of Keys() with its current value and Back() the
\* last key of Keys() with its current value.
C8_FrontBack ==
    LET keys == Keys(m).ret
        n == MapLen(m).ret
    IN  /\ (Front(m).ret = NilElement) <=> (n = 0)
        /\ (Back(m).ret = NilElement) <=> (n = 0)
        /\ n > 0 => /\ Front(m).ret = <<keys[1], Get(m, keys[1]).ret[1]>>
                    /\ Back(m).ret = <<keys[n], Get(m, keys[n]).ret[1]>>
        /\ last.op = "Front" => (last.ret = Front(m).ret /\ m = pre)
        /\ last.op = "Back" => (last.ret = Back(m).ret /\ m = pre)

\* C8 witness: after Set(a, 1), Set(b, 2) and a later Set(a, 2), Back() has
\* returned (b, 2) and Front() would return (a, 2).
C8_Witness ==
    /\ last.op = "Back" /\ last.ret = <<"b", "2">>
    /\ Keys(m).ret = <<"a", "b">>
    /\ Front(m).ret = <<"a", "2">>

\* C9: GetOrDefault returns the stored value of a present key and the default
\* for an absent one, and leaves the map as it was: Len(), Keys() and Get are
\* unchanged.
C9_GetOrDefault ==
    last.op = "GetOrDefault" =>
        /\ last.ret = IF Get(pre, last.key).ret[2] THEN Get(pre, last.key).ret[1]
                      ELSE last.val
        /\ MapLen(m).ret = MapLen(pre).ret
        /\ Keys(m).ret = Keys(pre).ret
        /\ \A k \in KeySet : Get(m, k).ret = Get(pre, k).ret
        /\ m = pre

\* C9 witness: the default came back for a key that a map of two keys lacks.
C9_Witness ==
    /\ last.op = "GetOrDefault" /\ last.ret = Default
    /\ ~Has(m, last.key)
    /\ Len(m.ll) = 2

C11_ErrorLeavesMapAlone ==
    last.op = "UnmarshalJSON" =>
        /\ (Len(last.key) % 2 = 1 \/ last.val \in BadBytes) => last.ret # Nil
        /\ last.ret # Nil => m = pre
        /\ Cardinality(DOMAIN m.kv) = Len(m.ll)

\* C11 witness: a list of three elements was refused by a map that held
\* neither of its keys with the value it carries.
C11_Witness ==
    /\ last.op = "UnmarshalJSON"
    /\ last.key = <<"a", "1", "b">>
    /\ last.ret = "invalid data, key-value doesn't match"
    /\ Keys(m).ret = <<"c", "a">>
    /\ Get(m, "a").ret = <<"2", TRUE>>

\* C18: UnmarshalJSON merges into its map: the keys that were there keep
\* their places, new keys follow in the order of their first occurrence, each
\* key is there once, a key of the input holds the value of its last
\* occurrence and any other key the value it had.
C18_UnmarshalMerges ==
    (last.op = "UnmarshalJSON" /\ last.ret = Nil) =>
        LET coll == last.key
            n == Len(coll) \div 2
            old == Keys(pre).ret
            new == Keys(m).ret
            First(k) == CHOOSE i \in 1..n :
                            coll[2 * i - 1] = k /\ \A j \in 1..(i - 1) : coll[2 * j - 1] # k
            Last(k) == CHOOSE i \in 1..n :
                            coll[2 * i - 1] = k /\ \A j \in (i + 1)..n : coll[2 * j - 1] # k
            Pos(k) == CHOOSE i \in 1..Len(new) : new[i] = k
        IN  /\ Len(new) >= Len(old)
            /\ SubSeq(new, 1, Len(old)) = old
            /\ Range(new) = Range(old) \cup CollKeys(coll)
            /\ Len(new) = Cardinality(Range(new))
            /\ \A x, y \in CollKeys(coll) \ Range(old) :
                  First(x) < First(y) => Pos(x) < Pos(y)
            /\ \A k \in CollKeys(coll) : Get(m, k).ret = <<coll[2 * Last(k)], TRUE>>
            /\ \A k \in KeySet \ CollKeys(coll) : Get(m, k).ret = Get(pre, k).ret

\* C18 witness: a map of c and b took in b once and a twice: b keeps its
\* place with the new value, a comes last, once, with its second value.
C18_Witness ==
    /\ last.op = "UnmarshalJSON" /\ last.ret = Nil
    /\ last.key = <<"b", "2", "a", "1", "a", "2">>
    /\ Keys(pre).ret = <<"c", "b">>
    /\ Get(pre, "b").ret = <<"1", TRUE>>
    /\ Keys(m).ret = <<"c", "b", "a">>
    /\ Get(m, "a").ret = <<"2", TRUE>>

\* C19: Set of an absent key followed by Delete of it returns (true, true)
\* and restores Keys(), Len(), Front(), Back() and every Get; a second Delete
\* returns false.
C19_SetThenDeleteRestores ==
    (last.op = "Set" /\ ~Has(pre, last.key)) =>
        LET d == Delete(m, last.key)
        IN  /\ last.ret = TRUE
            /\ d.ret = TRUE
            /\ Keys(d.m).ret = Keys(pre).ret
            /\ MapLen(d.m).ret = MapLen(pre).ret
            /\ Front(d.m).ret = Front(pre).ret
            /\ Back(d.m).ret = Back(pre).ret
            /\ \A k \in KeySet : Get(d.m, k).ret = Get(pre, k).ret
            /\ Delete(d.m, last.key).ret = FALSE

\* C19 witness: a key was set behind two others, which Delete would leave.
C19_Witness ==
    /\ last.op = "Set" /\ last.ret = TRUE
    /\ Len(pre.ll) = 2
    /\ Keys(Delete(m, last.key).m).ret = Keys(pre).ret
    /\ Back(m).ret # Back(pre).ret

\* A goroutine that has made its call and has not come back from it.
InCall(t) == th[t].pc \notin {"start", "done", "panic"}

\* C12: no operation blocks for ever.  Under every interleaving each call of
\* Get, GetOrDefault, Len, Keys, Front, Back, Set and Delete gets the lock it
\* needs and returns, Keys with its second read lock for Len() included.  In
\* a finite run: while some call has not returned, some goroutine can take a
\* step.
C12_NoCallBlocksForever ==
    (\E t \in Threads : InCall(t)) => ENABLED ConcNext

\* A goroutine between m.Lock() and the Unlock of Set or Delete.
WriterInside(t) == th[t].pc \in {"wcs", "wapply"}

\* A goroutine between m.RLock() and the RUnlock of a read operation.
ReaderInside(t) == th[t].pc \in {"rcs", "k_cs", "kl_cs", "k_loop", "mj_getcs"}

\* C13: mutual exclusion.  At most one caller is inside the critical section
\* of Set or Delete, and while one is, no caller is inside the critical
\* section of a read operation.
C13_MutualExclusion ==
    /\ Cardinality({t \in Threads : WriterInside(t)}) <= 1
    /\ (\E t \in Threads : WriterInside(t)) => \A u \in Threads : ~ReaderInside(u)

\* C13 witness: several readers are inside their critical sections at once.
C13_Witness ==
    /\ Cardinality({t \in Threads : ReaderInside(t)}) >= 2
    /\ \A t \in Threads : mu.readers[t] >= 1

\* Every goroutine has made its call and come back from it.
AllReturned == \A t \in Threads : th[t].pc = "done"

\* The goroutine called Set on a key the map did not hold, and no other
\* goroutine's Set or Delete is on that key.
SetsOwnNewKey(t) ==
    /\ th[t].op = "Set"
    /\ ~Has(pre, th[t].key)
    /\ \A u \in Threads \ {t} :
          th[u].op \in {"Set", "Delete"} => th[u].key # th[t].key

\* How often a key is in a list of keys.
Occurrences(keys, k) == Cardinality({i \in DOMAIN keys : keys[i] = k})

\* C14: no lost updates.  When goroutines call Set at the same time on keys
\* that differ from each other and are not in the map, every call returns
\* true, and once all calls have returned Keys() has each of the keys exactly
\* once and Get returns the value each goroutine set.
C14_NoLostUpdates ==
    AllReturned =>
        \A t \in Threads :
            SetsOwnNewKey(t) =>
                /\ th[t].ret = TRUE
                /\ Occurrences(Keys(m).ret, th[t].key) = 1
                /\ Get(m, th[t].key).ret = <<th[t].val, TRUE>>

\* C14 witness: two goroutines have set a new key each, and both have returned.
C14_Witness ==
    /\ AllReturned
    /\ Cardinality({t \in Threads : SetsOwnNewKey(t)}) >= 2
    /\ Len(log) >= 2

\* The list of keys and values that MarshalJSON's bytes hold.
Serialized(data) == GobDecode(JsonUnmarshal(data).v).v

\* C15: while MarshalJSON runs beside Delete, a key deleted after Keys() has
\* it and before MarshalJSON calls Get for it is skipped: MarshalJSON returns
\* without an error, and the list it serialized has no entry for that key.
C15_DeletedKeyIsSkipped ==
    \A t \in Threads :
        (th[t].op = "MarshalJSON" /\ th[t].pc = "done") =>
            /\ th[t].ret[2] = Nil
            /\ \A k \in th[t].missed : k \notin CollKeys(Serialized(th[t].ret[1]))

\* The goroutines that called Set on the key.
SettersOf(k) == {t \in Threads : th[t].op = "Set" /\ th[t].key = k}

\* The last element of the list that is in the set.
RECURSIVE LastIn(_, _)
LastIn(s, T) ==
    IF s = <<>> THEN 0
    ELSE IF s[Len(s)] \in T THEN s[Len(s)]
    ELSE LastIn(SubSeq(s, 1, Len(s) - 1), T)

\* C16: Set is one atomic step.  When goroutines call Set at the same time on
\* one key that the map does not hold, and no Delete runs, exactly one call
\* returns true and the others false, the key is at exactly one place in
\* Keys(), and Get returns the value of the call that entered its critical
\* section last.
C16_SetIsAtomic ==
    \A k \in ConcKeys :
        (/\ AllReturned
         /\ ~Has(pre, k)
         /\ SettersOf(k) # {}
         /\ \A t \in Threads : th[t].op # "Delete") =>
            /\ Cardinality({t \in SettersOf(k) : th[t].ret = TRUE}) = 1
            /\ \A t \in SettersOf(k) : th[t].ret \in {TRUE, FALSE}
            /\ Occurrences(Keys(m).ret, k) = 1
            /\ Get(m, k).ret = <<th[LastIn(log, SettersOf(k))].val, TRUE>>

\* C16 witness: two goroutines have set the same new key to different values,
\* and the first of them to enter found it new.
C16_Witness ==
    /\ AllReturned
    /\ \E k \in ConcKeys :
          /\ ~Has(pre, k)
          /\ Cardinality(SettersOf(k)) >= 2
          /\ \E t, u \in SettersOf(k) : th[t].val # th[u].val
    /\ th[log[1]].ret = TRUE

\* C17: Keys() never writes outside its slice and never returns unfilled
\* slots, even while Set and Delete run.  The length it gets from Len() and
\* the list it goes through are of one state of the map: the loop never runs
\* past the slice, and on return every place holds a key of the list, in
\* order, as the list was in that one state.
C17_KeysIsOneSnapshot ==
    \A t \in Threads :
        /\ th[t].op \in {"Keys", "MarshalJSON"} => th[t].pc # "panic"
        /\ th[t].pc = "k_loop" => th[t].n = Len(m.ll) /\ th[t].snap = m
        /\ (th[t].op = "Keys" /\ th[t].pc = "done") =>
              /\ Len(th[t].ret) = Len(th[t].snap.ll)
              /\ \A i \in DOMAIN th[t].ret :
                    /\ th[t].ret[i] # Nil
                    /\ th[t].ret[i] = th[t].snap.node[th[t].snap.ll[i]].key

\* C17 witness: Keys() has returned the keys of a map that a Set or Delete of
\* another goroutine has changed since.
C17_Witness ==
    \E t, u \in Threads :
        /\ th[t].op = "Keys" /\ th[t].pc = "done"
        /\ Len(th[t].ret) >= 1
        /\ th[u].op \in {"Set", "Delete"} /\ th[u].pc = "done"
        /\ Keys(m).ret # th[t].ret

====
